---- MODULE Spec2Model ----
(***************************************************************************)
(* State-machine model of neuraxle_tensorflow/tensorflow_v2.py:            *)
(* Tensorflow2ModelStep (setup / strip / fit / transform) and              *)
(* TensorflowV2StepSaver (save_step / load_step / can_load), together with *)
(* the part of tf.train.Checkpoint / tf.train.CheckpointManager that these *)
(* methods drive: a checkpoint folder holding numbered checkpoint files    *)
(* and the manager's state file.                                           *)
(*                                                                         *)
(* A Python reference that is None (or an attribute not yet assigned) is   *)
(* the empty tuple None; a reference to a live object is the one-element   *)
(* tuple Some(v) holding the object's state.                               *)
(***************************************************************************)
EXTENDS Integers, Sequences, FiniteSets, TLC

VARIABLES
    steps,    \* step name -> the fields of that Tensorflow2ModelStep
    folder,   \* the checkpoint folder on disk
    last,     \* the last call made and how it ended
    written   \* history: checkpoint numbers in the order of their last write

vars == <<steps, folder, last, written>>

-----------------------------------------------------------------------------
(* Bounds of the model *)

\* save_counter never exceeds MaxSaves (needs more than max_to_keep saves).
MaxSaves == 4

-----------------------------------------------------------------------------
(* Program constants *)

\* tf.train.CheckpointManager(..., max_to_keep=3)
max_to_keep == 3

\* tf.train.Checkpoint(step=tf.Variable(1), ...)
StepVariable == 1

\* The adapters of the model: one step writes to the folder (the code
\* assumes a single writer).
Adapters == {"A"}

None == <<>>

Some(v) == <<v>>

IsNone(r) == r = None

Val(r) == r[1]

\* The folder given to the constructor of every adapter of the model.
CheckpointFolder == "tmp_ckpts"

\* data_inputs: 0 gives a zero gradient, 1 a non-zero one.
DataInputs == {0, 1}

\* expected_outputs defaults to None in fit's signature.
ExpectedOutputs == {None, Some(0), Some(1)}

-----------------------------------------------------------------------------
(* The factories handed to the constructor: a one-weight linear model,    *)
(* a squared-error loss and a gradient-descent optimizer.                  *)

\* create_model(step): a fresh model, weight 0.
create_model == 0

\* create_optimizer(step): a fresh gradient-descent optimizer; it keeps no
\* state of its own between steps.
create_optimizer == "optimizer"

\* self.model(x): the forward pass.
Forward(w, x) == w * x

\* create_loss(step, y, output)
create_loss(y, output) == (y - output) * (y - output)

\* tape.gradient(loss, trainable_variables): d/dw (y - w*x)^2
Gradient(w, x, y) == 2 * x * (Forward(w, x) - y)

\* optimizer.apply_gradients: one descent step with learning rate 1/2.
ApplyGradients(w, g) == w - (g \div 2)

-----------------------------------------------------------------------------
(* Sequences helpers *)

Last(s) == s[Len(s)]

Without(s, n) == SelectSeq(s, LAMBDA e : e # n)

RECURSIVE SeqToSet(_)
SeqToSet(s) == IF s = <<>> THEN {} ELSE {Head(s)} \cup SeqToSet(Tail(s))

-----------------------------------------------------------------------------
(* tf.train.Checkpoint and tf.train.CheckpointManager                      *)
(*                                                                         *)
(* folder.files : checkpoint number -> option of the stored values         *)
(* folder.state : the manager's state file, the checkpoint numbers it      *)
(*                lists, oldest first; the last one is latest_checkpoint.  *)

Numbers == 1..(MaxSaves + 1)

EmptyFolder == [files |-> [n \in Numbers |-> None], state |-> <<>>]

\* tf.train.Checkpoint(step=tf.Variable(1), optimizer=self.optimizer,
\* net=self.model): save_counter starts at 0.
NewCheckpoint == [save_counter |-> 0, step |-> StepVariable]

\* tf.train.CheckpointManager(checkpoint, directory, max_to_keep=3): reads
\* the state file of the directory.
NewCheckpointManager(f) == f.state

\* Mutant of latest_checkpoint: the oldest checkpoint the manager lists.
oldest_checkpoint(mgr) == IF mgr = <<>> THEN None ELSE Some(Head(mgr))

\* CheckpointManager.latest_checkpoint
latest_checkpoint(mgr) == IF mgr = <<>> THEN None ELSE Some(Last(mgr))

\* The values a checkpoint of step s stores: its tracked objects.
TrackedValues(s, counter) ==
    [net |-> Val(s.model),
     optimizer |-> create_optimizer,
     step |-> Val(s.checkpoint).step,
     save_counter |-> counter]

\* Mutant of Swept: one checkpoint too many is kept.
SweptKeepsOneMore(mgr) ==
    IF Len(mgr) > max_to_keep + 1
    THEN SubSeq(mgr, Len(mgr) - max_to_keep, Len(mgr))
    ELSE mgr

\* CheckpointManager._sweep: delete the oldest checkpoints beyond max_to_keep.
Swept(mgr) == IF Len(mgr) > max_to_keep
              THEN SubSeq(mgr, Len(mgr) - max_to_keep + 1, Len(mgr))
              ELSE mgr

\* CheckpointManager.save(): the manager's list after writing checkpoint n.
ManagerAfterSave(mgr, n) == Swept(Append(Without(mgr, n), n))

\* CheckpointManager.save(): the folder after writing checkpoint n with
\* values v, sweeping, and recording the state file.
FolderAfterSave(f, mgr, n, v) ==
    LET kept == ManagerAfterSave(mgr, n)
        gone == SeqToSet(Append(Without(mgr, n), n)) \ SeqToSet(kept)
    IN  [files |-> [k \in Numbers |->
                      IF k = n THEN Some(v)
                      ELSE IF k \in gone THEN None
                      ELSE f.files[k]],
         state |-> kept]

\* Mutant of Restored: nothing is restored.
RestoredNothing(s, f, path) == s

\* checkpoint.restore(save_path): assigns the stored values to the tracked
\* objects; restore(None) assigns nothing.
Restored(s, f, path) ==
    IF IsNone(path) THEN s
    ELSE LET v == Val(f.files[Val(path)])
         IN  [s EXCEPT !.model = Some(v.net),
                       !.optimizer = Some(v.optimizer),
                       !.checkpoint = Some([Val(s.checkpoint) EXCEPT
                                              !.save_counter = v.save_counter,
                                              !.step = v.step])]

-----------------------------------------------------------------------------
(* Tensorflow2ModelStep                                                    *)

\* __init__: the factories and the folder are stored, nothing is built.
NewStep ==
    [create_model |-> "create_model",
     create_loss |-> "create_loss",
     create_optimizer |-> "create_optimizer",
     tf_model_checkpoint_folder |-> CheckpointFolder,
     is_initialized |-> FALSE,
     optimizer |-> None,
     model |-> None,
     checkpoint |-> None,
     checkpoint_manager |-> None,
     loss |-> None]

\* What a call left behind: the method, the step it was called on, its
\* data_inputs, the exception it raised ("" when it returned), the object
\* it returned and, for transform, the returned array.
Call(op, a, x, raised, ret, out) ==
    [op |-> op, step |-> a, x |-> x, y |-> None,
     raised |-> raised, ret |-> ret, out |-> out]

\* A call of fit, which also has expected_outputs.
CallFit(a, x, y, raised, ret) ==
    [Call("fit", a, Some(x), raised, ret, None) EXCEPT !.y = y]

Init ==
    /\ steps = [a \in Adapters |-> NewStep]
    /\ folder = EmptyFolder
    /\ last = Call("__init__", "A", None, "", "A", None)
    /\ written = <<>>

\* self.optimizer = self.create_optimizer(self)
WithNewOptimizer(s) == [s EXCEPT !.optimizer = Some(create_optimizer)]

\* Mutant of Built: the flag is not set.
BuiltFlagUnset(s, f) ==
    [WithNewOptimizer(s) EXCEPT
       !.model = Some(create_model),
       !.checkpoint = Some(NewCheckpoint),
       !.checkpoint_manager = Some(f.state)]

\* The body of setup() after the early return, when no factory raises.
Built(s, f) ==
    [WithNewOptimizer(s) EXCEPT
       !.model = Some(create_model),
       !.checkpoint = Some(NewCheckpoint),
       !.checkpoint_manager = Some(NewCheckpointManager(f)),
       !.is_initialized = TRUE]

\* Which factory raises in a run of setup(): none, the optimizer's or the
\* model's.
FactoryOutcomes == {"ok", "create_optimizer", "create_model"}

\* Mutant of SetupResult: no early return, setup() always builds.
SetupResultUnguarded(s, f, fails) ==
    IF fails = "create_optimizer" THEN s
    ELSE IF fails = "create_model" THEN WithNewOptimizer(s)
    ELSE Built(s, f)

\* Mutant of SetupResult: setup() returns early only when the model is
\* still there.
SetupResultRebuildsStripped(s, f, fails) ==
    IF s.is_initialized /\ ~IsNone(s.model) THEN s
    ELSE IF fails = "create_optimizer" THEN s
    ELSE IF fails = "create_model" THEN WithNewOptimizer(s)
    ELSE Built(s, f)

\* Mutant of SetupResult: the model factory is called before the
\* optimizer factory.
SetupResultModelFirst(s, f, fails) ==
    IF s.is_initialized THEN s
    ELSE IF fails = "create_model" THEN s
    ELSE IF fails = "create_optimizer" THEN [s EXCEPT !.model = Some(create_model)]
    ELSE Built(s, f)

\* setup(): the step after the call; fails names the factory that raises.
SetupResult(s, f, fails) ==
    IF s.is_initialized THEN s
    ELSE IF fails = "create_optimizer" THEN s
    ELSE IF fails = "create_model" THEN WithNewOptimizer(s)
    ELSE Built(s, f)

\* Whether setup() raises.
SetupRaises(s, fails) == ~s.is_initialized /\ fails # "ok"

Setup(a) ==
    \E fails \in FactoryOutcomes :
       /\ steps' = [steps EXCEPT ![a] = SetupResult(steps[a], folder, fails)]
       /\ UNCHANGED <<folder, written>>
       /\ last' = IF SetupRaises(steps[a], fails)
                  THEN Call("setup", a, None, "FactoryError", "", None)
                  ELSE Call("setup", a, None, "", a, None)

\* Mutant of Stripped: strip() also resets the flag.
StrippedResetsFlag(s) ==
    [s EXCEPT !.optimizer = None,
              !.model = None,
              !.checkpoint = None,
              !.checkpoint_manager = None,
              !.is_initialized = FALSE]

\* Mutant of Strip: strip() also removes the checkpoints of the folder.
StripEmptiesFolder(a) ==
    /\ steps' = [steps EXCEPT ![a] =
                   [steps[a] EXCEPT !.optimizer = None, !.model = None,
                                    !.checkpoint = None,
                                    !.checkpoint_manager = None]]
    /\ folder' = EmptyFolder
    /\ written' = written
    /\ last' = Call("strip", a, None, "", "None", None)

\* strip()
Stripped(s) ==
    [s EXCEPT !.optimizer = None,
              !.model = None,
              !.checkpoint = None,
              !.checkpoint_manager = None]

Strip(a) ==
    /\ steps' = [steps EXCEPT ![a] = Stripped(steps[a])]
    /\ UNCHANGED <<folder, written>>
    /\ last' = Call("strip", a, None, "", "None", None)

\* Mutant of FitRaises: fit() returns silently when there is no model.
FitRaisesGuarded(s, y) ==
    IF IsNone(y) THEN "ValueError"
    ELSE IF IsNone(s.model) THEN ""
    ELSE IF IsNone(s.optimizer) THEN "NullReference"
    ELSE ""

\* fit(): the exception raised, "" when it returns.
FitRaises(s, y) ==
    IF IsNone(y) THEN "ValueError"
    ELSE IF IsNone(s.model) THEN "NullReference"
    ELSE IF IsNone(s.optimizer) THEN "NullReference"
    ELSE ""

\* Mutant of FitResult: the loss is recorded, the optimizer step is skipped.
FitResultNoStep(s, x, y) ==
    IF IsNone(y) \/ IsNone(s.model) THEN s
    ELSE [s EXCEPT !.loss = Some(create_loss(Val(y), Forward(Val(s.model), x)))]

\* fit(): the step after the call.
FitResult(s, x, y) ==
    IF IsNone(y) \/ IsNone(s.model) THEN s
    ELSE LET w == Val(s.model)
             l == create_loss(Val(y), Forward(w, x))
         IN  IF IsNone(s.optimizer) THEN [s EXCEPT !.loss = Some(l)]
             ELSE [s EXCEPT !.loss = Some(l),
                            !.model = Some(ApplyGradients(w, Gradient(w, x, Val(y))))]

Fit(a) ==
    \E x \in DataInputs, y \in ExpectedOutputs :
       /\ steps' = [steps EXCEPT ![a] = FitResult(steps[a], x, y)]
       /\ UNCHANGED <<folder, written>>
       /\ last' = IF FitRaises(steps[a], y) # ""
                  THEN CallFit(a, x, y, FitRaises(steps[a], y), "")
                  ELSE CallFit(a, x, y, "", a)

\* transform(): the exception raised, "" when it returns.
TransformRaises(s) == IF IsNone(s.model) THEN "NullReference" ELSE ""

\* Mutant of TransformResult: the forward pass updates the weight.
TransformResultUpdates(s, x) ==
    IF IsNone(s.model) THEN s
    ELSE [s EXCEPT !.model = Some((Val(s.model) + x) % 2)]

\* transform(): the step after the call; the forward pass only reads the
\* model.
TransformResult(s, x) == s

Transform(a) ==
    \E x \in DataInputs :
       /\ steps' = [steps EXCEPT ![a] = TransformResult(steps[a], x)]
       /\ UNCHANGED <<folder, written>>
       /\ last' = IF TransformRaises(steps[a]) # ""
                  THEN Call("transform", a, Some(x), TransformRaises(steps[a]), "", None)
                  ELSE Call("transform", a, Some(x), "", "ndarray",
                            Some(Forward(Val(steps[a].model), x)))

-----------------------------------------------------------------------------
(* TensorflowV2StepSaver                                                   *)

\* Whether checkpoint_manager.save() succeeds, or raises an I/O error
\* having written nothing.
SaveOutcomes == {"ok", "IOError"}

\* The checkpoint after CheckpointManager.save() has advanced save_counter.
Counted(s) ==
    [s EXCEPT !.checkpoint = Some([Val(s.checkpoint) EXCEPT
                                     !.save_counter = @ + 1])]

\* save_step(): the exception raised, "" when it returns.
SaveStepRaises(s, io) ==
    IF IsNone(s.checkpoint_manager) THEN "NullReference"
    ELSE IF io = "IOError" THEN "IOError"
    ELSE ""

\* Mutant of SaveStepResult: save_step also resets the flag.
SaveStepResultResetsFlag(s, io) ==
    IF IsNone(s.checkpoint_manager) THEN s
    ELSE IF io = "IOError" THEN s
    ELSE [Stripped(Counted(s)) EXCEPT !.is_initialized = FALSE]

\* Mutant of SaveStepResult: strip() runs even when the save has raised.
SaveStepResultAlwaysStrips(s, io) ==
    IF IsNone(s.checkpoint_manager) THEN s
    ELSE IF io = "IOError" THEN Stripped(s)
    ELSE Stripped(Counted(s))

\* save_step(): the step after the call.
SaveStepResult(s, io) ==
    IF IsNone(s.checkpoint_manager) THEN s
    ELSE IF io = "IOError" THEN s
    ELSE Stripped(Counted(s))

\* save_step(): the folder after the call.
SaveStepFolder(s, f, io) ==
    IF IsNone(s.checkpoint_manager) \/ io = "IOError" THEN f
    ELSE LET n == Val(s.checkpoint).save_counter + 1
         IN  FolderAfterSave(f, Val(s.checkpoint_manager), n, TrackedValues(s, n))

SaveStep(a) ==
    \E io \in SaveOutcomes :
       /\ ~IsNone(steps[a].checkpoint_manager)
             => Val(steps[a].checkpoint).save_counter < MaxSaves
       /\ steps' = [steps EXCEPT ![a] = SaveStepResult(steps[a], io)]
       /\ folder' = SaveStepFolder(steps[a], folder, io)
       /\ written' = IF SaveStepRaises(steps[a], io) # "" THEN written
                     ELSE LET n == Val(steps[a].checkpoint).save_counter + 1
                          IN  Append(Without(written, n), n)
       /\ last' = IF SaveStepRaises(steps[a], io) # ""
                  THEN Call("save_step", a, None, SaveStepRaises(steps[a], io), "", None)
                  ELSE Call("save_step", a, None, "", a, None)

\* Mutant of LoadStepResult: when setup() raises, the flag is put back to
\* what it was before the call.
LoadStepResultPutsFlagBack(s, f, fails) ==
    LET reset == [s EXCEPT !.is_initialized = FALSE]
        built == SetupResult(reset, f, fails)
    IN  IF fails # "ok" THEN [built EXCEPT !.is_initialized = s.is_initialized]
        ELSE Restored(built, f, latest_checkpoint(Val(built.checkpoint_manager)))

\* load_step(): the step after the call.
LoadStepResult(s, f, fails) ==
    LET reset == [s EXCEPT !.is_initialized = FALSE]
        built == SetupResult(reset, f, fails)
    IN  IF fails # "ok" THEN built
        ELSE Restored(built, f, latest_checkpoint(Val(built.checkpoint_manager)))

LoadStep(a) ==
    \E fails \in FactoryOutcomes :
       /\ steps' = [steps EXCEPT ![a] = LoadStepResult(steps[a], folder, fails)]
       /\ UNCHANGED <<folder, written>>
       /\ last' = IF fails # "ok"
                  THEN Call("load_step", a, None, "FactoryError", "", None)
                  ELSE Call("load_step", a, None, "", a, None)

\* Mutant of CanLoad: can_load looks for a checkpoint in the folder.
CanLoadLooksInFolder(a) ==
    /\ UNCHANGED <<steps, folder, written>>
    /\ last' = Call("can_load", a, None, "",
                    IF folder.state = <<>> THEN "False" ELSE "True", None)

\* can_load()
CanLoad(a) ==
    /\ UNCHANGED <<steps, folder, written>>
    /\ last' = Call("can_load", a, None, "", "True", None)

-----------------------------------------------------------------------------

Next ==
    \E a \in Adapters :
       \/ Setup(a)
       \/ Strip(a)
       \/ Fit(a)
       \/ Transform(a)
       \/ SaveStep(a)
       \/ LoadStep(a)
       \/ CanLoad(a)

Spec == Init /\ [][Next]_vars

\* The behaviours in which no factory raises.
NoFactoryFailure == last.raised # "FactoryError"

NextNoFactoryFailure ==
    \E a \in Adapters :
       \/ Setup(a) /\ NoFactoryFailure'
       \/ Strip(a)
       \/ Fit(a)
       \/ Transform(a)
       \/ SaveStep(a)
       \/ LoadStep(a) /\ NoFactoryFailure'
       \/ CanLoad(a)

SpecNoFactoryFailure == Init /\ [][NextNoFactoryFailure]_vars

-----------------------------------------------------------------------------
(* Properties                                                              *)

\* The four live references of a step.
AllLive(s) ==
    /\ ~IsNone(s.model)
    /\ ~IsNone(s.optimizer)
    /\ ~IsNone(s.checkpoint)
    /\ ~IsNone(s.checkpoint_manager)

AllNull(s) ==
    /\ IsNone(s.model)
    /\ IsNone(s.optimizer)
    /\ IsNone(s.checkpoint)
    /\ IsNone(s.checkpoint_manager)

\* The stripped half-state: the flag says initialized, the references are gone.
HalfState(s) == s.is_initialized /\ AllNull(s)

\* The call recorded in `last` was op on step a and returned normally.
Returned(l, op, a) == l.op = op /\ l.step = a /\ l.raised = ""

\* The values stored in the latest checkpoint of folder f.
LatestStored(f) == Val(f.files[Last(f.state)])

C2_RoundTrip ==
    [][\A a \in Adapters :
          (Returned(last', "save_step", a) /\ AllLive(steps[a])) =>
             LET B == LoadStepResult(NewStep, folder', "ok")
             IN  /\ B.is_initialized
                 /\ AllLive(B)
                 /\ B.model = steps[a].model
                 /\ \A x \in DataInputs :
                       Forward(Val(B.model), x) = Forward(Val(steps[a].model), x)]_vars

\* C2 witness: a step with trained weights (not those create_model gives)
\* has been saved, and a fresh step loaded from the folder gets them.
C2_Witness ==
    \E a \in Adapters :
       /\ Returned(last, "save_step", a)
       /\ LatestStored(folder).net # create_model
       /\ LoadStepResult(NewStep, folder, "ok").model = Some(LatestStored(folder).net)

\* C3: setup() on an initialized step changes no field of the step and
\* nothing in the folder, whatever the factories would do, and does not
\* raise; after any setup() that returned, a second setup() changes
\* nothing; and from any state, with factories that behave the same way
\* both times, two calls of setup() leave the step as one call does.
C3_SetupIdempotent ==
    [][\A a \in Adapters :
          /\ \A fails \in FactoryOutcomes :
                SetupResult(SetupResult(steps[a], folder, fails), folder, fails)
                   = SetupResult(steps[a], folder, fails)
          /\ (last'.op = "setup" /\ last'.step = a) =>
                /\ steps[a].is_initialized =>
                      /\ steps'[a] = steps[a]
                      /\ folder' = folder
                      /\ last'.raised = ""
                /\ last'.raised = "" =>
                      \A fails \in FactoryOutcomes :
                         /\ SetupResult(steps'[a], folder', fails) = steps'[a]
                         /\ ~SetupRaises(steps'[a], fails)]_vars

\* C3 witness: setup() has returned on a step holding trained weights and a
\* recorded loss, which an uninitialized setup() would have replaced.
C3_Witness ==
    \E a \in Adapters :
       /\ Returned(last, "setup", a)
       /\ steps[a].is_initialized
       /\ ~IsNone(steps[a].loss)
       /\ AllLive(steps[a])
       /\ steps[a].model # Some(create_model)

\* C4: when the folder holds a checkpoint and load_step returns, the step
\* is initialized, its four references are live and its weights are those
\* stored in the most recently saved checkpoint.
C4_LoadRestoresLatest ==
    [][\A a \in Adapters :
          (Returned(last', "load_step", a) /\ written # <<>>) =>
             /\ steps'[a].is_initialized
             /\ AllLive(steps'[a])
             /\ steps'[a].model = Some(Val(folder.files[Last(written)]).net)]_vars

\* C4 witness: load_step has returned with weights that differ from those
\* of a freshly built model and from those of an older checkpoint.
C4_Witness ==
    \E a \in Adapters :
       /\ Returned(last, "load_step", a)
       /\ Len(folder.state) > 1
       /\ steps[a].model = Some(LatestStored(folder).net)
       /\ steps[a].model # Some(create_model)
       /\ Val(folder.files[Head(folder.state)]).net # LatestStored(folder).net

\* C5: when save_step returns on an initialized step, the latest checkpoint
\* of the folder is a new one holding the weights the step had at the
\* call, the four references are null, is_initialized is still true and
\* the step itself is returned.
C5_SaveThenStrip ==
    [][\A a \in Adapters :
          (Returned(last', "save_step", a) /\ steps[a].is_initialized) =>
             /\ folder'.state # <<>>
             /\ Last(folder'.state) = Val(steps[a].checkpoint).save_counter + 1
             /\ ~IsNone(folder'.files[Last(folder'.state)])
             /\ LatestStored(folder').net = Val(steps[a].model)
             /\ AllNull(steps'[a])
             /\ steps'[a].is_initialized
             /\ last'.ret = a]_vars

\* C5 witness: save_step has returned, the latest checkpoint holds trained
\* weights and the step is stripped with the flag still true.
C5_Witness ==
    \E a \in Adapters :
       /\ Returned(last, "save_step", a)
       /\ HalfState(steps[a])
       /\ folder.state # <<>>
       /\ LatestStored(folder).net # create_model

\* C6: save_step on an initialized step leaves the half-state; in the
\* half-state every call but load_step leaves the step as it is, and every
\* fit, transform and save_step raises, on the null reference whenever its
\* arguments are well formed; load_step, when it returns, makes the
\* references live again.
C6_UnusableUntilLoad ==
    [][\A a \in Adapters :
          /\ (Returned(last', "save_step", a) /\ steps[a].is_initialized)
                => HalfState(steps'[a])
          /\ (HalfState(steps[a]) /\ last'.step = a /\ last'.op # "load_step") =>
                /\ steps'[a] = steps[a]
                /\ last'.op \in {"fit", "transform", "save_step"} =>
                      last'.raised \in {"NullReference", "ValueError"}
                /\ last'.op \in {"transform", "save_step"} =>
                      last'.raised = "NullReference"
          /\ (HalfState(steps[a]) /\ Returned(last', "load_step", a))
                => AllLive(steps'[a])]_vars

\* C6 witness: fit has raised on the null reference in the half-state left
\* by a save.
C6_Witness ==
    \E a \in Adapters :
       /\ HalfState(steps[a])
       /\ folder.state # <<>>
       /\ last.op = "fit" /\ last.step = a /\ last.raised = "NullReference"

\* C7: strip() sets model, optimizer, checkpoint and checkpoint_manager to
\* null and leaves is_initialized, the three factories, the folder name,
\* the recorded loss and the contents of the folder unchanged.
C7_StripFrame ==
    [][\A a \in Adapters :
          (last'.op = "strip" /\ last'.step = a) =>
             /\ AllNull(steps'[a])
             /\ steps'[a].is_initialized = steps[a].is_initialized
             /\ steps'[a].create_model = steps[a].create_model
             /\ steps'[a].create_loss = steps[a].create_loss
             /\ steps'[a].create_optimizer = steps[a].create_optimizer
             /\ steps'[a].tf_model_checkpoint_folder = steps[a].tf_model_checkpoint_folder
             /\ steps'[a].loss = steps[a].loss
             /\ folder' = folder
             /\ last'.raised = ""]_vars

\* C7 witness: strip() has run on an initialized step with a recorded loss
\* and a non-empty folder.
C7_Witness ==
    \E a \in Adapters :
       /\ Returned(last, "strip", a)
       /\ HalfState(steps[a])
       /\ ~IsNone(steps[a].loss)
       /\ folder.state # <<>>

\* The checkpoint numbers that have a file in folder f.
Stored(f) == {n \in Numbers : ~IsNone(f.files[n])}

\* C8: the folder holds at most max_to_keep checkpoints, they are the most
\* recently written ones, in the order of writing, the latest one is the
\* one written by the last save_step, and a live manager lists them too.
C8_BoundedRetention ==
    /\ Cardinality(Stored(folder)) <= max_to_keep
    /\ Stored(folder) = SeqToSet(folder.state)
    /\ folder.state = SubSeq(written,
                             IF Len(written) > max_to_keep
                             THEN Len(written) - max_to_keep + 1 ELSE 1,
                             Len(written))
    /\ \A a \in Adapters :
          /\ ~IsNone(steps[a].checkpoint_manager)
                => Val(steps[a].checkpoint_manager) = folder.state
          /\ Returned(last, "save_step", a) =>
                /\ written # <<>>
                /\ latest_checkpoint(NewCheckpointManager(folder)) = Some(Last(written))

\* C8 witness: more than max_to_keep checkpoints have been written, the
\* folder holds max_to_keep of them and a save_step has just returned.
C8_Witness ==
    \E a \in Adapters :
       /\ Returned(last, "save_step", a)
       /\ Len(written) > max_to_keep
       /\ Cardinality(Stored(folder)) = max_to_keep

\* C9: on a step that has never been set up, fit, transform and save_step
\* raise (on the null reference whenever their arguments are well formed)
\* and change nothing; and a fit or transform that returns was called on a
\* step whose model and optimizer had been built.
C9_FaultBeforeSetup ==
    [][\A a \in Adapters :
          /\ (steps[a] = NewStep /\ last'.step = a
                /\ last'.op \in {"fit", "transform", "save_step"}) =>
                /\ last'.raised \in {"NullReference", "ValueError"}
                /\ last'.op # "fit" => last'.raised = "NullReference"
                /\ last'.ret = ""
                /\ steps' = steps
                /\ folder' = folder
          /\ (Returned(last', "fit", a) \/ Returned(last', "transform", a)) =>
                /\ ~IsNone(steps[a].model)
                /\ ~IsNone(steps[a].optimizer)]_vars

\* C9 witness: save_step has raised on the null reference of a step that
\* was never set up.
C9_Witness ==
    \E a \in Adapters :
       /\ steps[a] = NewStep
       /\ last.op = "save_step" /\ last.step = a /\ last.raised = "NullReference"
       /\ written = <<>>

\* C10: a transform that returns leaves every field of the step (weights,
\* optimizer, loss, is_initialized) and the folder unchanged, returns the
\* forward pass of the current weights, and a second transform with the
\* same input right after it returns the same output.
C10_TransformFrame ==
    [][\A a \in Adapters :
          Returned(last', "transform", a) =>
             /\ steps' = steps
             /\ folder' = folder
             /\ last'.out = Some(Forward(Val(steps[a].model), Val(last'.x)))
             /\ (Returned(last, "transform", a) /\ last.x = last'.x)
                   => last'.out = last.out]_vars

\* C10 witness: transform has returned a non-zero output on a trained,
\* initialized step with a recorded loss.
C10_Witness ==
    \E a \in Adapters :
       /\ Returned(last, "transform", a)
       /\ steps[a].is_initialized
       /\ ~IsNone(steps[a].loss)
       /\ last.out = Some(1)

\* C11: a fit on an initialized step that is given expected outputs
\* returns the step itself, records the loss of the weights it had before
\* the call on the inputs of the call, and moves the weight by one descent
\* step, which changes it exactly when the gradient is not zero; it
\* changes no other field and nothing in the folder.  (Without expected
\* outputs the argument conversion raises before anything is done.)
C11_FitStep ==
    [][\A a \in Adapters :
          (last'.op = "fit" /\ last'.step = a
             /\ steps[a].is_initialized /\ AllLive(steps[a])) =>
             IF IsNone(last'.y)
             THEN last'.raised = "ValueError" /\ steps' = steps /\ folder' = folder
             ELSE LET w == Val(steps[a].model)
                      x == Val(last'.x)
                      y == Val(last'.y)
                      g == 2 * x * (w * x - y)
                  IN  /\ last'.raised = ""
                      /\ last'.ret = a
                      /\ folder' = folder
                      /\ steps'[a] = [steps[a] EXCEPT
                                        !.loss = Some((y - w * x) * (y - w * x)),
                                        !.model = Some(w - x * (w * x - y))]
                      /\ (steps'[a].model # steps[a].model) <=> (g # 0)]_vars

\* C11 witness: fit has returned having recorded the loss 1 of the old
\* weight and moved the weight to 1.
C11_Witness ==
    \E a \in Adapters :
       /\ Returned(last, "fit", a)
       /\ last.x = Some(1) /\ last.y = Some(1)
       /\ steps[a].is_initialized
       /\ steps[a].loss = Some(1)
       /\ steps[a].model = Some(1)

\* C12: can_load can be called in every state of the step and of the
\* folder, returns True, raises nothing and changes neither the step nor
\* the folder.
C12_CanLoadAlwaysTrue ==
    [][\A a \in Adapters :
          /\ ENABLED CanLoad(a)
          /\ (last'.op = "can_load" /\ last'.step = a) =>
                /\ last'.ret = "True"
                /\ last'.raised = ""
                /\ steps' = steps
                /\ folder' = folder]_vars

\* C12 witness: can_load has returned True for a step that was never set
\* up, over a folder that holds no checkpoint.
C12_Witness ==
    \E a \in Adapters :
       /\ Returned(last, "can_load", a)
       /\ last.ret = "True"
       /\ steps[a] = NewStep
       /\ Stored(folder) = {}

\* C13: a setup() on an uninitialized step that raises has built nothing or
\* the optimizer alone (the optimizer factory runs first, the model factory
\* second) and has not set the flag; one that returns has built a new
\* optimizer and model, a new checkpoint, a manager over the configured
\* folder listing the checkpoints of that folder, and has set the flag
\* with all four references non-null.
C13_SetupOrder ==
    [][\A a \in Adapters :
          (last'.op = "setup" /\ last'.step = a /\ ~steps[a].is_initialized) =>
             IF last'.raised # ""
             THEN /\ ~steps'[a].is_initialized
                  /\ steps'[a].model = steps[a].model
                  /\ steps'[a].checkpoint = steps[a].checkpoint
                  /\ steps'[a].checkpoint_manager = steps[a].checkpoint_manager
                  /\ steps'[a].optimizer \in {steps[a].optimizer, Some("optimizer")}
             ELSE /\ steps'[a].is_initialized
                  /\ AllLive(steps'[a])
                  /\ steps'[a].optimizer = Some("optimizer")
                  /\ steps'[a].model = Some(0)
                  /\ Val(steps'[a].checkpoint).save_counter = 0
                  /\ Val(steps'[a].checkpoint).step = 1
                  /\ steps'[a].tf_model_checkpoint_folder = CheckpointFolder
                  /\ Val(steps'[a].checkpoint_manager) = folder.state]_vars

\* C13 witness: setup() has raised in the model factory, after the
\* optimizer was built and before anything else was.
C13_Witness ==
    \E a \in Adapters :
       /\ last.op = "setup" /\ last.step = a /\ last.raised = "FactoryError"
       /\ ~steps[a].is_initialized
       /\ ~IsNone(steps[a].optimizer)
       /\ IsNone(steps[a].model)
       /\ IsNone(steps[a].checkpoint)
       /\ IsNone(steps[a].checkpoint_manager)

\* C14: when a factory raises in setup(), called directly or by load_step,
\* the call raises, is_initialized is false afterwards, no checkpoint and
\* no checkpoint manager has been built, and a later setup() whose
\* factories succeed builds everything anew.
C14_FactoryFailure ==
    [][\A a \in Adapters :
          (last'.op \in {"setup", "load_step"} /\ last'.step = a
             /\ last'.raised = "FactoryError") =>
             /\ last'.ret = ""
             /\ ~steps'[a].is_initialized
             /\ steps'[a].checkpoint = steps[a].checkpoint
             /\ steps'[a].checkpoint_manager = steps[a].checkpoint_manager
             /\ folder' = folder
             /\ LET again == SetupResult(steps'[a], folder', "ok")
                IN  /\ again.is_initialized
                    /\ AllLive(again)
                    /\ again.model = Some(0)
                    /\ Val(again.checkpoint).save_counter = 0]_vars

\* C14 witness: load_step has raised in a factory on a step that was
\* initialized and holds trained weights; the flag is now false.
C14_Witness ==
    \E a \in Adapters :
       /\ last.op = "load_step" /\ last.step = a /\ last.raised = "FactoryError"
       /\ ~steps[a].is_initialized
       /\ AllLive(steps[a])
       /\ steps[a].model = Some(1)

\* C15 (as stated): when the folder holds no checkpoint, load_step does not
\* return: it raises.
C15_LoadFailsOnEmptyFolder ==
    [][\A a \in Adapters :
          (last'.op = "load_step" /\ last'.step = a /\ Stored(folder) = {})
             => last'.raised # ""]_vars

\* C16: when checkpoint_manager.save() raises inside save_step, the error
\* reaches the caller, strip() has not run, and the step has the four live
\* references, the weights and the flag it had before the call; nothing
\* was added to the folder.
C16_FailedSaveKeepsStep ==
    [][\A a \in Adapters :
          (last'.op = "save_step" /\ last'.step = a /\ last'.raised = "IOError") =>
             /\ last'.ret = ""
             /\ AllLive(steps[a])
             /\ AllLive(steps'[a])
             /\ steps'[a].model = steps[a].model
             /\ steps'[a].optimizer = steps[a].optimizer
             /\ steps'[a].checkpoint_manager = steps[a].checkpoint_manager
             /\ steps'[a].is_initialized = steps[a].is_initialized
             /\ steps'[a].loss = steps[a].loss
             /\ folder' = folder]_vars

\* C16 witness: save_step has raised an I/O error on an initialized step
\* with trained weights, which is still initialized and live.
C16_Witness ==
    \E a \in Adapters :
       /\ last.op = "save_step" /\ last.step = a /\ last.raised = "IOError"
       /\ steps[a].is_initialized
       /\ AllLive(steps[a])
       /\ steps[a].model = Some(1)

\* C17: every call other than a save_step that returns leaves the stored
\* checkpoints and their stored values unchanged; a save_step that returns
\* writes one checkpoint and adds no other; and a load_step that returns
\* yields the weights stored by the last save_step, whatever weights fit
\* had reached in memory.
C17_OnlySaveAdds ==
    [][\A a \in Adapters :
          /\ ~Returned(last', "save_step", a) =>
                (folder' = folder /\ written' = written)
          /\ Returned(last', "save_step", a) =>
                /\ written' # <<>>
                /\ Last(written') \in Stored(folder')
                /\ Stored(folder') \subseteq Stored(folder) \cup {Last(written')}
          /\ (Returned(last', "load_step", a) /\ written # <<>>) =>
                /\ steps'[a].model = Some(Val(folder.files[Last(written)]).net)
                /\ steps'[a].loss = steps[a].loss]_vars

\* C17 witness: load_step has returned weight 0, the one stored, on a step
\* whose recorded loss comes from a fit.
C17_Witness ==
    \E a \in Adapters :
       /\ Returned(last, "load_step", a)
       /\ written # <<>>
       /\ steps[a].loss = Some(1)
       /\ steps[a].model = Some(0)
       /\ Val(folder.files[Last(written)]).net = 0

\* C18: is_initialized goes from true to false only in a load_step in
\* which a factory raises; every other call, and every load_step that
\* returns, leaves a true flag true.
C18_FlagNeverReset ==
    [][\A a \in Adapters :
          /\ (steps[a].is_initialized /\ ~steps'[a].is_initialized) =>
                (last'.op = "load_step" /\ last'.raised = "FactoryError")
          /\ Returned(last', "load_step", a) => steps'[a].is_initialized
          /\ Returned(last', "setup", a) => steps'[a].is_initialized]_vars

\* C18 witness: a load_step in which a factory raised has left the flag
\* false on a step that had been set up and saved before.
C18_Witness ==
    \E a \in Adapters :
       /\ last.op = "load_step" /\ last.step = a /\ last.raised = "FactoryError"
       /\ ~steps[a].is_initialized
       /\ written # <<>>
       /\ IsNone(steps[a].model)

====
